---------------------------- MODULE Spec2Model ----------------------------
(***************************************************************************)
(* Model of superaccept.py: the redeal script that compares the contract   *)
(* reached with and without the superaccept of a Jacoby transfer.          *)
(*                                                                         *)
(* A deal is abstracted to what the script reads of it: the lengths of     *)
(* North's four suits, North's HCP, the playing tricks (pt) and losers of  *)
(* North's majors, the lengths of South's majors and South's HCP.  The     *)
(* double-dummy result of the deal (the tricks a declarer takes in a       *)
(* strain) is chosen when do() asks for the scores.                        *)
(***************************************************************************)
EXTENDS Integers, Sequences, FiniteSets

VARIABLES
    pc,             \* position of the redeal driver
    deal,           \* the deal of the current trial
    sc,             \* deal.sc: the superaccept contract cached by accept()
    nsc,            \* deal.nsc: the no-superaccept contract cached by accept()
    ret,            \* what accept() returned for the current deal
    TABLE_MP,
    TABLE_IMP_VUL,
    TABLE_IMP_NVUL,
    TABLE_IMP,
    SAME_SCORE,
    n_tries,        \* deals generated so far
    n_found         \* deals accepted so far

vars == <<pc, deal, sc, nsc, ret, TABLE_MP, TABLE_IMP_VUL, TABLE_IMP_NVUL,
          TABLE_IMP, SAME_SCORE, n_tries, n_found>>

(***************************************************************************)
(* Bounds of the model.                                                    *)
(***************************************************************************)
MaxTrials == 2          \* trials the driver runs
MaxNorthSuit == 6       \* longest suit dealt to North
MaxNorthHcp == 9        \* most HCP dealt to North
MaxSouthMajor == 5      \* longest major of South when South is not predealt
MaxPt == 1              \* playing tricks of a North major: 0..MaxPt
MaxLosers == 1          \* losers of a North major: 0..MaxLosers

(***************************************************************************)
(* Values.                                                                 *)
(***************************************************************************)
Unset == "unset"                \* a global or a name not assigned yet
None == <<"None">>              \* Python's None, where a contract may be
NoAttr == <<"unset">>           \* deal.sc or deal.nsc not assigned yet
NoDeal == [north |-> Unset, south |-> Unset]

\* NT_shape, as the (spades, hearts) lengths its patterns allow South:
\* "(43)33", "44(32)", "5(332)", "35(32)", "2533".
superaccept_shape ==
    {<<4, 3>>, <<3, 4>>} \cup {<<4, 4>>} \cup {<<5, 3>>, <<5, 2>>}
        \cup {<<3, 5>>} \cup {<<2, 5>>}
NT_shape == superaccept_shape

SouthHcp == 17

\* Lengths of North's (spades, hearts, diamonds, clubs): 13 cards.
NorthShapes ==
    {s \in (0..MaxNorthSuit) \X (0..MaxNorthSuit) \X (0..MaxNorthSuit)
            \X (0..MaxNorthSuit) : s[1] + s[2] + s[3] + s[4] = 13}

\* A holding, as the script reads it: len(holding), holding.pt, holding.losers.
Holding(n, p, l) == [len |-> n, pt |-> p, losers |-> l]

\* pt is read (line 86) only of a North with two 6+ card majors and losers
\* (line 125) only of a North with two 5-card majors; they are drawn for
\* those hands and are 0, never read, for the others.
PtValues(s) == IF s[1] >= 6 /\ s[2] >= 6 THEN 0..MaxPt ELSE {0}
LoserValues(s) == IF s[1] = 5 /\ s[2] = 5 THEN 0..MaxLosers ELSE {0}

NorthHands ==
    UNION {
        {[spades |-> Holding(s[1], p[1], l[1]),
          hearts |-> Holding(s[2], p[2], l[2]),
          diamonds |-> Holding(s[3], 0, 0),
          clubs |-> Holding(s[4], 0, 0),
          hcp |-> h] :
            h \in 0..MaxNorthHcp,
            p \in PtValues(s) \X PtValues(s),
            l \in LoserValues(s) \X LoserValues(s)} : s \in NorthShapes}

SouthHand(m) ==
    [spades |-> Holding(m[1], 0, 0), hearts |-> Holding(m[2], 0, 0),
     hcp |-> SouthHcp]

\* Each major has 13 cards.
Fits(n, m) == n.spades.len + m[1] <= 13 /\ n.hearts.len + m[2] <= 13

\* predeal: South has 17 HCP and a shape of NT_shape.
predeal ==
    {[north |-> n, south |-> SouthHand(m)] :
        n \in NorthHands, m \in {x \in NT_shape : TRUE}}

\* Any South majors: the deals contract() and accept() may be called on.
AnyMajors ==
    {m \in (0..MaxSouthMajor) \X (0..MaxSouthMajor) : m[1] + m[2] <= 13}
AnyDeals ==
    {d \in {[north |-> n, south |-> SouthHand(m)] :
                n \in NorthHands, m \in AnyMajors} :
        Fits(d.north, <<d.south.spades.len, d.south.hearts.len>>)}

(***************************************************************************)
(* Hand evaluation.                                                        *)
(***************************************************************************)
short_suit_points(holding) ==
    IF holding.len >= 3 THEN 0
    ELSE IF holding.len = 2 THEN 1
    ELSE IF holding.len = 1 THEN 2
    ELSE 3

dist_points(hand) ==
    short_suit_points(hand.spades) + short_suit_points(hand.hearts)
        + short_suit_points(hand.diamonds) + short_suit_points(hand.clubs)

\* A contract is the string level + strain + declarer, kept as its three
\* characters so that do() can index it.
Contract(level, suit, seat) == <<level, suit, seat>>

(***************************************************************************)
(* contract(deal, use_superaccept)                                         *)
(***************************************************************************)
ntp_of(d) == d.north.hcp + dist_points(d.north)

\* North Jacobys into a 6-card suit; with two, the one with more playing
\* tricks, spades on a tie.
suit_6(d) ==
    IF d.north.spades.len < 6 THEN "H"
    ELSE IF d.north.hearts.len < 6 THEN "S"
    ELSE IF d.north.spades.pt >= d.north.hearts.pt THEN "S"
    ELSE "H"

\* South's bid over the transfer into a 6-card suit, and North's rebid.
rebid_6(ntp, suit, use_superaccept) ==
    IF use_superaccept
    THEN IF ntp >= 8 THEN Contract("4", suit, "S") ELSE Contract("3", suit, "S")
    ELSE IF ntp = 9 THEN Contract("4", suit, "S") ELSE Contract("2", suit, "S")

\* contract_6 with the test of South's support made only when South does
\* not superaccept.
contract_6_support_late(d, use_superaccept) ==
    LET ntp == ntp_of(d)
        suit == suit_6(d)
        sl == IF suit = "H" THEN d.south.hearts.len ELSE d.south.spades.len
    IN  IF ntp >= 10 THEN None
        ELSE IF ~use_superaccept /\ sl < 4 THEN None
        ELSE rebid_6(ntp, suit, use_superaccept)

\* The 6-card suit part of contract().
contract_6(d, use_superaccept) ==
    LET ntp == ntp_of(d)
        suit == suit_6(d)
        sl == IF suit = "H" THEN d.south.hearts.len ELSE d.south.spades.len
    IN  IF ntp >= 10 THEN None
        ELSE IF sl < 4 THEN None
        ELSE rebid_6(ntp, suit, use_superaccept)

\* The suit North shows first with one or two 5-card majors.
suit_5(d) ==
    LET ntp == ntp_of(d)
    IN  IF d.north.spades.len < 5 THEN "H"
        ELSE IF d.north.hearts.len < 5 THEN "S"
        ELSE IF ntp >= 10 THEN "S"
        ELSE IF ntp = 9 THEN "H"
        ELSE IF d.north.spades.losers <= d.north.hearts.losers THEN "S"
        ELSE "H"

\* stayman with 10+ HCP asked for.
stayman_10(nol, nhcp) == nol = 4 /\ nhcp >= 10

\* North has exactly 4 of the other major and inv+ strength: Stayman.
stayman(nol, nhcp) == nol = 4 /\ nhcp >= 9

\* superaccept_5 with game bid on 9+ total points.
superaccept_5_9(ntp, suit) ==
    IF ntp > 8 THEN Contract("4", suit, "S") ELSE Contract("3", suit, "S")

\* South superaccepts: North goes to game with 8+ total points.
superaccept_5(ntp, suit) ==
    IF ntp >= 8 THEN Contract("4", suit, "S") ELSE Contract("3", suit, "S")

\* five_five with spades chosen on a tie at invitational strength.
five_five_inv_spades(ntp, suit, ss, sh) ==
    IF ntp >= 10
    THEN IF sh > ss THEN Contract("4", "H", "N") ELSE Contract("4", "S", "S")
    ELSE IF ntp = 9
    THEN IF ss >= sh THEN Contract("4", "S", "N") ELSE Contract("4", "H", "S")
    ELSE Contract("2", suit, "S")

\* five_five with hearts chosen on a tie at game-forcing strength.
five_five_gf_hearts(ntp, suit, ss, sh) ==
    IF ntp >= 10
    THEN IF sh >= ss THEN Contract("4", "H", "N") ELSE Contract("4", "S", "S")
    ELSE IF ntp = 9
    THEN IF ss > sh THEN Contract("4", "S", "N") ELSE Contract("4", "H", "S")
    ELSE Contract("2", suit, "S")

\* South bids 2 and North is 5-5.
five_five(ntp, suit, ss, sh) ==
    IF ntp >= 10
    THEN IF sh > ss THEN Contract("4", "H", "N") ELSE Contract("4", "S", "S")
    ELSE IF ntp = 9
    THEN IF ss > sh THEN Contract("4", "S", "N") ELSE Contract("4", "H", "S")
    ELSE Contract("2", suit, "S")

\* one_suiter with 10+ HCP asked for.
one_suiter_10(nhcp, suit) ==
    IF nhcp > 9 THEN Contract("4", suit, "S") ELSE Contract("2", suit, "S")

\* South bids 2 and North has only one 5-card major.
one_suiter(nhcp, suit) ==
    IF nhcp >= 9 THEN Contract("4", suit, "S") ELSE Contract("2", suit, "S")

\* contract_5 with 3-card support taken as enough for a superaccept.
contract_5_support_3(d, use_superaccept) ==
    LET ns == d.north.spades.len
        nh == d.north.hearts.len
        nhcp == d.north.hcp
        ntp == ntp_of(d)
        ss == d.south.spades.len
        sh == d.south.hearts.len
        suit == suit_5(d)
        ssl == IF suit = "H" THEN sh ELSE ss
        nol == IF suit = "H" THEN ns ELSE nh
    IN  IF ssl < 3 THEN None
        ELSE IF stayman(nol, nhcp) THEN None
        ELSE IF use_superaccept THEN superaccept_5(ntp, suit)
        ELSE IF nol = 5 THEN five_five(ntp, suit, ss, sh)
        ELSE one_suiter(nhcp, suit)

\* The 5-card suit part of contract().
contract_5(d, use_superaccept) ==
    LET ns == d.north.spades.len
        nh == d.north.hearts.len
        nhcp == d.north.hcp
        ntp == ntp_of(d)
        ss == d.south.spades.len
        sh == d.south.hearts.len
        suit == suit_5(d)
        ssl == IF suit = "H" THEN sh ELSE ss
        nol == IF suit = "H" THEN ns ELSE nh
    IN  IF ssl < 4 THEN None
        ELSE IF stayman(nol, nhcp) THEN None
        ELSE IF use_superaccept THEN superaccept_5(ntp, suit)
        ELSE IF nol = 5 THEN five_five(ntp, suit, ss, sh)
        ELSE one_suiter(nhcp, suit)

contract(d, use_superaccept) ==
    IF d.north.spades.len >= 6 \/ d.north.hearts.len >= 6
    THEN contract_6(d, use_superaccept)
    ELSE contract_5(d, use_superaccept)

(***************************************************************************)
(* The double-dummy score of a contract (redeal's deal.dd_score): the      *)
(* declarer takes `tricks` tricks in an undoubled major-suit contract.     *)
(***************************************************************************)
\* The code point of a level character, as Python compares sc[0] > nsc[0].
ord(ch) == CASE ch = "2" -> 50 [] ch = "3" -> 51 [] ch = "4" -> 52

level_of(c) == ord(c[1]) - 48

dd_score(c, tricks, vul) ==
    LET level == level_of(c)
    IN  IF tricks >= level + 6
        THEN 30 * (tricks - 6)
                + (IF level >= 4 THEN (IF vul THEN 500 ELSE 300) ELSE 50)
        ELSE (tricks - (level + 6)) * (IF vul THEN 100 ELSE 50)

\* The tricks a declarer may take: 8 (3M and 4M go down, 2M makes) or
\* 10 (all make, 4M with the game bonus).
DDTricks == {8, 10}

(***************************************************************************)
(* The script's functions and the driver's loop.                           *)
(***************************************************************************)
Init ==
    /\ pc = "start"
    /\ deal = NoDeal
    /\ sc = NoAttr
    /\ nsc = NoAttr
    /\ ret = Unset
    /\ TABLE_MP = Unset
    /\ TABLE_IMP_VUL = Unset
    /\ TABLE_IMP_NVUL = Unset
    /\ TABLE_IMP = Unset
    /\ SAME_SCORE = Unset
    /\ n_tries = 0
    /\ n_found = 0

\* initial()
initial ==
    /\ pc = "start"
    /\ TABLE_MP' = <<>>
    /\ TABLE_IMP_VUL' = <<>>
    /\ TABLE_IMP_NVUL' = <<>>
    /\ TABLE_IMP' = <<>>
    /\ SAME_SCORE' = 0
    /\ pc' = "loop"
    /\ UNCHANGED <<deal, sc, nsc, ret, n_tries, n_found>>

\* The driver deals the next hand: a new deal object, with no sc or nsc.
Deal ==
    /\ pc = "loop"
    /\ n_tries < MaxTrials
    /\ deal' \in predeal
    /\ UNCHANGED <<sc, nsc, ret>>
    /\ n_tries' = n_tries + 1
    /\ pc' = "dealt"
    /\ UNCHANGED <<TABLE_MP, TABLE_IMP_VUL, TABLE_IMP_NVUL, TABLE_IMP,
                   SAME_SCORE, n_found>>

\* no_transfer with a 4-card major taken as enough for a transfer.
no_transfer_4(d) == d.north.spades.len < 4 /\ d.north.hearts.len < 4

\* accept(deal): no Jacoby transfer.
no_transfer(d) == d.north.spades.len < 5 /\ d.north.hearts.len < 5

\* accept(deal): no possibility of superaccept.
no_superaccept(d) == d.south.spades.len < 4 /\ d.south.hearts.len < 4

\* verdict without the test that the two contracts differ.
verdict_no_same(s, n) ==
    IF s = None \/ n = None
    THEN IF s = None /\ n = None THEN "False" ELSE "AssertionError"
    ELSE "True"

\* accept(deal): what it does with the two contracts it computed; the
\* value returned, as Python prints it, or the assertion's failure.
verdict(s, n) ==
    IF s = None \/ n = None
    THEN IF s = None /\ n = None THEN "False" ELSE "AssertionError"
    ELSE IF s = n THEN "False"
    ELSE "True"

\* accept(deal)
accept ==
    /\ pc = "dealt"
    /\ IF no_transfer(deal)
       THEN ret' = "False" /\ pc' = "skip" /\ UNCHANGED <<sc, nsc>>
       ELSE IF no_superaccept(deal)
       THEN ret' = "False" /\ pc' = "skip" /\ UNCHANGED <<sc, nsc>>
       ELSE /\ sc' = contract(deal, TRUE)
            /\ nsc' = contract(deal, FALSE)
            /\ IF verdict(sc', nsc') = "AssertionError"
               THEN ret' = Unset /\ pc' = "AssertionError"
               ELSE /\ ret' = verdict(sc', nsc')
                    /\ pc' = IF ret' = "True" THEN "do" ELSE "skip"
    /\ n_found' = IF ret' = "True" THEN n_found + 1 ELSE n_found
    /\ UNCHANGED <<deal, TABLE_MP, TABLE_IMP_VUL, TABLE_IMP_NVUL, TABLE_IMP,
                   SAME_SCORE, n_tries>>

\* add_data that drops the data.
add_data_dropped(table, data) == table

\* Payoff.add_data(data)
add_data(table, data) == Append(table, data)

\* do(deal): the declarer of sc takes ts tricks, the declarer of nsc tns;
\* the same declarer in the same strain takes the same tricks.
do ==
    /\ pc = "do"
    /\ \E ts \in DDTricks, tns \in DDTricks :
        /\ (sc[2] = nsc[2] /\ sc[3] = nsc[3]) => tns = ts
        /\ LET ns_nv == dd_score(nsc, tns, FALSE)
               ns_v == dd_score(nsc, tns, TRUE)
               s_nv == dd_score(sc, ts, FALSE)
               s_v == dd_score(sc, ts, TRUE)
           IN  /\ TABLE_MP' =
                    add_data(TABLE_MP, [super |-> s_nv, nosuper |-> ns_nv])
               /\ TABLE_IMP_VUL' =
                    add_data(TABLE_IMP_VUL, [super |-> s_v, nosuper |-> ns_v])
               /\ TABLE_IMP_NVUL' =
                    add_data(TABLE_IMP_NVUL, [super |-> s_nv, nosuper |-> ns_nv])
               /\ TABLE_IMP' =
                    add_data(TABLE_IMP, [super |-> <<s_v, s_nv>>,
                                         nosuper |-> <<ns_v, ns_nv>>])
               /\ SAME_SCORE' =
                    IF ns_nv = s_nv /\ ord(sc[1]) > ord(nsc[1]) /\ nsc[2] = sc[2]
                    THEN SAME_SCORE + 1
                    ELSE SAME_SCORE
    /\ pc' = "recorded"
    /\ UNCHANGED <<deal, sc, nsc, ret, n_tries, n_found>>

\* The end of a trial: the driver drops the deal, with its sc and nsc.
next_trial ==
    /\ pc \in {"skip", "recorded"}
    /\ deal' = NoDeal
    /\ sc' = NoAttr
    /\ nsc' = NoAttr
    /\ ret' = Unset
    /\ pc' = "loop"
    /\ UNCHANGED <<TABLE_MP, TABLE_IMP_VUL, TABLE_IMP_NVUL, TABLE_IMP,
                   SAME_SCORE, n_tries, n_found>>

\* final(n_tries): the reports are printed; nothing is changed.
final ==
    /\ pc = "loop"
    /\ n_tries = MaxTrials
    /\ pc' = "done"
    /\ UNCHANGED <<deal, sc, nsc, ret, TABLE_MP, TABLE_IMP_VUL, TABLE_IMP_NVUL,
                   TABLE_IMP, SAME_SCORE, n_tries, n_found>>

Next == initial \/ Deal \/ accept \/ do \/ next_trial \/ final

Spec == Init /\ [][Next]_vars

\* contract() and accept() on any deal: one trial after initial(), the deal
\* drawn from AnyDeals.
InitAny ==
    /\ pc = "dealt"
    /\ deal \in AnyDeals
    /\ sc = NoAttr
    /\ nsc = NoAttr
    /\ ret = Unset
    /\ TABLE_MP = <<>>
    /\ TABLE_IMP_VUL = <<>>
    /\ TABLE_IMP_NVUL = <<>>
    /\ TABLE_IMP = <<>>
    /\ SAME_SCORE = 0
    /\ n_tries = 1
    /\ n_found = 0

NextAny == accept \/ do \/ next_trial

SpecAny == InitAny /\ [][NextAny]_vars

(***************************************************************************)
(* What the claims speak of.                                               *)
(***************************************************************************)
\* The driver holds a deal.
HasDeal == pc \in {"dealt", "skip", "do", "recorded", "AssertionError"}
\* accept() has run on the deal.
Ran == pc \in {"skip", "do", "recorded", "AssertionError"}
Defined(c) == c # None /\ c # NoAttr

north_spades == deal.north.spades.len
north_hearts == deal.north.hearts.len
north_hcp == deal.north.hcp
north_tp == ntp_of(deal)
south_spades == deal.south.spades.len
south_hearts == deal.south.hearts.len
south_hcp == deal.south.hcp

\* North has exactly one 5-card major and no longer major; that major, the
\* length of the other one and South's support for it.
Single5 ==
    \/ north_spades = 5 /\ north_hearts < 5
    \/ north_hearts = 5 /\ north_spades < 5
OneMajor == IF north_spades >= 5 /\ north_hearts < 5 THEN "S" ELSE "H"
OtherLen == IF OneMajor = "S" THEN north_hearts ELSE north_spades
Support == IF OneMajor = "S" THEN south_spades ELSE south_hearts
FiveFive == north_spades = 5 /\ north_hearts = 5

\* C1: contract(deal, True) is None exactly when contract(deal, False) is
\* None, on every deal, and the assertion of accept() never fails.
C1_Divergence ==
    /\ pc # "AssertionError"
    /\ HasDeal =>
        ((contract(deal, TRUE) = None) <=> (contract(deal, FALSE) = None))
    /\ Ran => ((sc = None) <=> (nsc = None))

C1_Witness ==
    pc = "skip" /\ ~no_transfer(deal) /\ ~no_superaccept(deal)
        /\ sc = None /\ nsc = None

\* C2: when accept() returns True, sc and nsc are both defined and differ;
\* when both are defined and equal it returns False; do() runs only with
\* both defined.
C2_AcceptedDistinct ==
    /\ ret = "True" => Defined(sc) /\ Defined(nsc) /\ sc # nsc
    /\ (Ran /\ Defined(sc) /\ Defined(nsc) /\ sc = nsc) => ret = "False"
    /\ pc \in {"do", "recorded"} =>
        ret = "True" /\ Defined(sc) /\ Defined(nsc)

C2_Witness ==
    pc = "recorded" /\ ret = "True" /\ Defined(sc) /\ Defined(nsc)
        /\ sc # nsc

\* C3: with fewer than 5 spades and fewer than 5 hearts in North, accept()
\* returns False and leaves deal.sc and deal.nsc unassigned.
C3_NoTransferSkipped ==
    (Ran /\ north_spades < 5 /\ north_hearts < 5) =>
        pc = "skip" /\ ret = "False" /\ sc = NoAttr /\ nsc = NoAttr

C3_Witness ==
    pc = "skip" /\ north_spades = 4 /\ north_hearts = 4 /\ south_spades >= 4
        /\ ret = "False" /\ sc = NoAttr /\ nsc = NoAttr

\* C4, as claimed: with one 5-card major, 4+ card support and 8+ total
\* points, the superaccept contract is always 4 of the major by South.
C4_Original ==
    (Ran /\ Single5 /\ Support >= 4 /\ north_tp >= 8) =>
        sc = Contract("4", OneMajor, "S")

\* C4, amended: with one 5-card major, 4+ card support and 8+ total points,
\* the superaccept contract is 4 of the major by South, unless North has
\* exactly 4 cards of the other major and 9+ HCP, when it is None.
C4_GameUnlessStayman ==
    (Ran /\ Single5 /\ Support >= 4 /\ north_tp >= 8) =>
        sc = IF OtherLen = 4 /\ north_hcp >= 9
             THEN None
             ELSE Contract("4", OneMajor, "S")

C4_Witness ==
    Ran /\ Single5 /\ Support >= 4 /\ north_tp = 8
        /\ sc = Contract("4", OneMajor, "S")

\* The deal of the end-to-end scenario: North has exactly 5 hearts, fewer
\* than 4 spades and 8 total points; South has 17 HCP.
ScenarioNorth ==
    north_hearts = 5 /\ north_spades < 4 /\ north_tp = 8 /\ south_hcp = 17

\* C5, as claimed: with 4 spades and 3 hearts in South, the contracts are
\* 3H and 2H by South and the deal is accepted.
C5_Original ==
    (Ran /\ ScenarioNorth /\ south_spades = 4 /\ south_hearts = 3) =>
        /\ sc = Contract("3", "H", "S")
        /\ nsc = Contract("2", "H", "S")
        /\ ret = "True"

\* C5, amended: with 4 spades and 3 hearts in South both contracts are None
\* and the deal is not accepted; with 3 spades and 4 hearts the contracts
\* are 4H and 2H by South and the deal is accepted.
C5_Scenario ==
    /\ (Ran /\ ScenarioNorth /\ south_spades = 4 /\ south_hearts = 3) =>
        sc = None /\ nsc = None /\ ret = "False"
    /\ (Ran /\ ScenarioNorth /\ south_spades = 3 /\ south_hearts = 4) =>
        /\ sc = Contract("4", "H", "S")
        /\ nsc = Contract("2", "H", "S")
        /\ ret = "True"

C5_Witness ==
    pc = "skip" /\ ScenarioNorth /\ south_spades = 4 /\ south_hearts = 3
        /\ sc = None /\ nsc = None /\ ret = "False"

\* C6: North 5-5 and no superaccept, the contract defined: with 10+ total
\* points it is 4 of South's longer major, 4S by South on a tie; with
\* exactly 9 it is 4 of South's longer major, 4H by South on a tie; with
\* less it is 2 of the suit transferred into, by South.
C6_FiveFive ==
    (Ran /\ FiveFive /\ Defined(nsc)) =>
        /\ north_tp >= 10 =>
            /\ nsc[1] = "4"
            /\ nsc[2] = IF south_hearts > south_spades THEN "H" ELSE "S"
            /\ south_spades = south_hearts => nsc = Contract("4", "S", "S")
        /\ north_tp = 9 =>
            /\ nsc[1] = "4"
            /\ nsc[2] = IF south_spades > south_hearts THEN "S" ELSE "H"
            /\ south_spades = south_hearts => nsc = Contract("4", "H", "S")
        /\ north_tp < 9 =>
            nsc = Contract("2",
                           IF deal.north.spades.losers
                                <= deal.north.hearts.losers
                           THEN "S" ELSE "H",
                           "S")

C6_Witness ==
    Ran /\ FiveFive /\ north_tp = 9 /\ south_spades = south_hearts
        /\ nsc = Contract("4", "H", "S")

\* C7, as claimed: whenever North has a 5+ card major with 4+ card support,
\* exactly 4 cards of the other major and 9+ total points, both contracts
\* are None.
C7_Original ==
    (Ran /\ (north_spades >= 5 \/ north_hearts >= 5) /\ OtherLen = 4
         /\ Support >= 4 /\ north_tp >= 9) =>
        sc = None /\ nsc = None

\* C7, amended: the bypass is decided by North's HCP and applies only
\* without a 6+ card major: with a 5-card major, 4+ card support, exactly 4
\* cards of the other major and 9+ HCP both contracts are None; with 9+
\* total points but fewer than 9 HCP, or with a 6+ card major and fewer than
\* 10 total points, both are defined.
C7_StaymanOnHcp ==
    /\ (Ran /\ Single5 /\ OtherLen = 4 /\ Support >= 4 /\ north_hcp >= 9) =>
        sc = None /\ nsc = None
    /\ (Ran /\ Single5 /\ OtherLen = 4 /\ Support >= 4 /\ north_hcp < 9) =>
        Defined(sc) /\ Defined(nsc)
    /\ (Ran /\ (north_spades >= 6 \/ north_hearts >= 6) /\ OtherLen = 4
            /\ Support >= 4 /\ north_tp < 10) =>
        Defined(sc) /\ Defined(nsc)

C7_Witness ==
    pc = "skip" /\ Single5 /\ OtherLen = 4 /\ Support >= 4 /\ north_hcp = 9
        /\ sc = None /\ nsc = None

\* C8, as claimed: with one 5-card major and no superaccept, the contract
\* defined, it is 4 of the major by South exactly when the opener (South)
\* has 9+ HCP, and 2 of the major by South otherwise.
C8_Original ==
    (Ran /\ Single5 /\ Defined(nsc)) =>
        nsc = IF south_hcp >= 9
              THEN Contract("4", OneMajor, "S")
              ELSE Contract("2", OneMajor, "S")

\* C8, amended: it is 4 of the major by South exactly when the responder
\* (North) has 9+ HCP, and 2 of the major by South otherwise.
C8_OneSuiter ==
    (Ran /\ Single5 /\ Defined(nsc)) =>
        nsc = IF north_hcp >= 9
              THEN Contract("4", OneMajor, "S")
              ELSE Contract("2", OneMajor, "S")

C8_Witness ==
    Ran /\ Single5 /\ north_hcp = 9 /\ nsc = Contract("4", OneMajor, "S")

\* The four tables and the counter.
Accumulators ==
    <<TABLE_MP, TABLE_IMP_VUL, TABLE_IMP_NVUL, TABLE_IMP, SAME_SCORE>>

\* `after` is `before` with exactly one entry appended.
OneAppended(before, after) ==
    Len(after) = Len(before) + 1 /\ SubSeq(after, 1, Len(before)) = before

\* C9: after initial(), the accumulators change only in do(), which appends
\* one entry to each table and adds 0 or 1 to SAME_SCORE; at the end of a
\* trial each table has as many entries as deals were accepted, and
\* SAME_SCORE is between 0 and that number.
C9_Accumulators ==
    /\ [][pc \notin {"start", "do"} => UNCHANGED Accumulators]_vars
    /\ [][pc = "dealt" /\ ret' = "False" =>
            pc' = "skip" /\ UNCHANGED Accumulators]_vars
    /\ [][pc = "do" =>
            /\ OneAppended(TABLE_MP, TABLE_MP')
            /\ OneAppended(TABLE_IMP_VUL, TABLE_IMP_VUL')
            /\ OneAppended(TABLE_IMP_NVUL, TABLE_IMP_NVUL')
            /\ OneAppended(TABLE_IMP, TABLE_IMP')
            /\ SAME_SCORE' \in {SAME_SCORE, SAME_SCORE + 1}]_vars
    /\ [](pc # "start" =>
            /\ Len(TABLE_MP) = IF pc = "do" THEN n_found - 1 ELSE n_found
            /\ Len(TABLE_IMP_VUL) = Len(TABLE_MP)
            /\ Len(TABLE_IMP_NVUL) = Len(TABLE_MP)
            /\ Len(TABLE_IMP) = Len(TABLE_MP)
            /\ SAME_SCORE \in 0..Len(TABLE_MP))

C9_Witness ==
    pc = "loop" /\ n_tries = 2 /\ n_found = 1 /\ Len(TABLE_MP) = 1
        /\ Len(TABLE_IMP) = 1 /\ SAME_SCORE = 1

\* The suit North transfers into.
transfer_suit(d) ==
    IF d.north.spades.len >= 6 \/ d.north.hearts.len >= 6
    THEN suit_6(d)
    ELSE suit_5(d)

\* C10: with South's majors of NT_shape, a defined contract is in the suit
\* transferred into and by South; on an accepted deal the two contracts have
\* the same strain and declarer and their levels are 3 and 2 or 4 and 2.
C10_PredealtShapes ==
    (Ran /\ <<south_spades, south_hearts>> \in NT_shape) =>
        /\ Defined(sc) =>
            sc[2] = transfer_suit(deal) /\ sc[3] = "S"
        /\ Defined(nsc) =>
            nsc[2] = transfer_suit(deal) /\ nsc[3] = "S"
        /\ ret = "True" =>
            /\ sc[2] = nsc[2]
            /\ sc[3] = nsc[3]
            /\ <<sc[1], nsc[1]>> \in {<<"3", "2">>, <<"4", "2">>}

C10_Witness ==
    Ran /\ <<south_spades, south_hearts>> = <<4, 4>> /\ FiveFive
        /\ north_tp >= 10 /\ nsc = Contract("4", "S", "S")

=============================================================================
